---- MODULE Spec2Model ----
(***************************************************************************)
(* The tick engine of LLMFed (src/core_engine/engine.py): Engine.run_ticks, *)
(* Engine.set_hints, Engine._parse_action_data, TickScheduler.next_tick,    *)
(* GameState and RuleBook.validate, as a state machine.                     *)
(*                                                                          *)
(* One run_ticks call is a sequence of actions: RunTicks (entry), TickStart *)
(* (one loop iteration: next_tick, roster fetch), Step (one role/agent      *)
(* step, from prompt to the appended TickResult) and Return.  The engine    *)
(* is driven by a single control path: a new call starts only when no call  *)
(* is in progress.                                                          *)
(***************************************************************************)
EXTENDS Integers, Sequences, FiniteSets, TLC

(***************************************************************************)
(* JSON values as the decision service can return them.  Python is          *)
(* dynamically typed, so every value carries its type tag t:               *)
(*   "str" (s), "int" (i), "bool" (i = 0 or 1), "null", "list" (a non-empty *)
(*   JSON array), "dict" (a JSON object).                                   *)
(* All values of one nesting level have the same record shape.  Three       *)
(* levels occur: hint values (integers), the values inside a meta object    *)
(* (MV: atoms, or an object of hint values in h) and the values of a raw    *)
(* decision object or of a parsed tuple (JV: atoms, or an object of MV      *)
(* in d).                                                                   *)
(***************************************************************************)
EmptyH == [k \in {} |-> 0]

MStr(x) == [t |-> "str", s |-> x, i |-> 0, h |-> EmptyH]
MInt(x) == [t |-> "int", s |-> "", i |-> x, h |-> EmptyH]
MNull == [t |-> "null", s |-> "", i |-> 0, h |-> EmptyH]
MDict(x) == [t |-> "dict", s |-> "", i |-> 0, h |-> x]

EmptyD == [k \in {} |-> MNull]

JStr(x) == [t |-> "str", s |-> x, i |-> 0, d |-> EmptyD]
JInt(x) == [t |-> "int", s |-> "", i |-> x, d |-> EmptyD]
JBool(x) == [t |-> "bool", s |-> "", i |-> x, d |-> EmptyD]
JNull == [t |-> "null", s |-> "", i |-> 0, d |-> EmptyD]
JList == [t |-> "list", s |-> "", i |-> 0, d |-> EmptyD]
JDict(x) == [t |-> "dict", s |-> "", i |-> 0, d |-> x]

\* A JSON object of integers, as a value of a raw decision: {k: h[k]}.
JHints(hm) == JDict([k \in DOMAIN hm |-> MInt(hm[k])])

\* The same value one nesting level down (an object keeps its integer entries).
ToM(v) ==
    IF v.t = "dict"
    THEN MDict([k \in DOMAIN v.d |-> v.d[k].i])
    ELSE [t |-> v.t, s |-> v.s, i |-> v.i, h |-> EmptyH]

\* Python truthiness: bool(v).
Truthy(v) ==
    CASE v.t = "str" -> v.s # ""
      [] v.t = "int" -> v.i # 0
      [] v.t = "bool" -> v.i # 0
      [] v.t = "null" -> FALSE
      [] v.t = "list" -> TRUE
      [] OTHER -> DOMAIN v.d # {}

MTruthy(v) ==
    CASE v.t = "str" -> v.s # ""
      [] v.t = "int" -> v.i # 0
      [] v.t = "bool" -> v.i # 0
      [] v.t = "null" -> FALSE
      [] OTHER -> DOMAIN v.h # {}

\* Python v == "x" for a string literal x.
IsStr(v, x) == v.t = "str" /\ v.s = x

\* Python isinstance(v, int): bool is a subclass of int.
IsInstanceInt(v) == v.t \in {"int", "bool"}

\* dict.get(k, default) on a raw decision object / on a meta object.
Get(d, k, default) == IF k \in DOMAIN d THEN d[k] ELSE default

(***************************************************************************)
(* pydantic (v2, lax mode) field validation of the response models of       *)
(* src/models/entities.py.  Extra keys are ignored.                         *)
(***************************************************************************)
ReqStr(d, k) == k \in DOMAIN d /\ d[k].t = "str"
OptStr(d, k) == k \notin DOMAIN d \/ d[k].t \in {"str", "null"}
\* int: an int or (lax) a bool; no string of the model's universe is numeric.
LaxInt(v) == v.t \in {"int", "bool"}

AgentActionResponse(d) ==
    /\ ReqStr(d, "event_id")
    /\ ReqStr(d, "chosen_action_id")
    /\ OptStr(d, "target_agent_id")
    /\ OptStr(d, "commentary")
    /\ \/ "intensity" \notin DOMAIN d
       \/ d["intensity"].t = "null"
       \/ LaxInt(d["intensity"]) /\ d["intensity"].i >= 1 /\ d["intensity"].i <= 10

RefereeCallResponse(d) == ReqStr(d, "call") /\ OptStr(d, "reason")

CrowdReactionResponse(d) ==
    /\ ReqStr(d, "reaction")
    /\ "heat_adjustment" \in DOMAIN d => LaxInt(d["heat_adjustment"])

AnnouncerCommentaryResponse(d) == ReqStr(d, "commentary")

PromoterHintResponse(d) == "new_hints" \in DOMAIN d /\ d["new_hints"].t = "dict"

BackstageActionResponse(d) == ReqStr(d, "action") /\ OptStr(d, "description")

\* x or "" for an Optional[str] field: None and "" both give "".
OrEmpty(v) == IF Truthy(v) THEN v ELSE JStr("")

Parsed(a, ds, m) == [raised |-> FALSE, action_id |-> a, description |-> ds, meta |-> m]
ParseRaised == [raised |-> TRUE, action_id |-> JNull, description |-> JNull, meta |-> JNull]

\* The last line of _parse_action_data, also its stub short cut.
RawFields(d) ==
    Parsed(Get(d, "action_id", JStr("noop")),
           Get(d, "description", JStr("")),
           Get(d, "meta", JDict(EmptyD)))

StubKeys == {"action_id", "description", "meta"}

\* Engine._parse_action_data(role, data).  data is the value send_prompt
\* returned: data.keys() raises AttributeError unless it is a dict.
_parse_action_data(role, data) ==
    IF data.t # "dict" THEN ParseRaised
    ELSE LET d == data.d IN
    IF DOMAIN d \subseteq StubKeys THEN RawFields(d)
    ELSE IF role = "participant" /\ AgentActionResponse(d)
    THEN Parsed(d["chosen_action_id"],
                OrEmpty(Get(d, "commentary", JNull)),
                JDict([k \in {"target_agent_id", "intensity"} |->
                          IF k = "intensity"
                          THEN ToM(Get(d, k, JInt(5)))
                          ELSE ToM(Get(d, k, JNull))]))
    ELSE IF role = "referee" /\ RefereeCallResponse(d)
    THEN Parsed(JStr("referee_" \o d["call"].s),
                d["call"],
                JDict([k \in {"call", "reason"} |-> ToM(Get(d, k, JNull))]))
    ELSE IF role = "crowd" /\ CrowdReactionResponse(d)
    THEN Parsed(d["reaction"],
                d["reaction"],
                JDict([k \in {"heat_adjustment"} |-> MInt(Get(d, k, JInt(0)).i)]))
    ELSE IF role = "announcer" /\ AnnouncerCommentaryResponse(d)
    THEN Parsed(JStr("announce"), d["commentary"], JDict(EmptyD))
    ELSE IF role = "promoter" /\ PromoterHintResponse(d)
    THEN Parsed(JStr("promoter_hint"), JStr(""),
                JDict([k \in {"new_hints"} |-> ToM(d[k])]))
    ELSE IF role = "backstage" /\ BackstageActionResponse(d)
    THEN Parsed(d["action"], OrEmpty(Get(d, "description", JNull)), JDict(EmptyD))
    ELSE RawFields(d)

\* RuleBook.validate(action_id, description, meta).
validate(action_id, description, meta) ==
    [action_id |-> action_id,
     description |-> IF Truthy(description) THEN description ELSE JStr("Validated action"),
     effects |-> IF Truthy(meta) THEN meta ELSE JDict(EmptyD)]

(***************************************************************************)
(* The engine.                                                              *)
(***************************************************************************)
\* Engine.role_order.
role_order == <<"promoter", "participant", "referee", "crowd", "announcer", "backstage">>

\* A roster entry: a row of the agents table, or a test double that lacks the
\* role attribute (has_role) or current_heat/momentum (has_stats).
Agent(id, hasrole, r, hasstats, h, m) ==
    [agent_id |-> id, has_role |-> hasrole, role |-> r,
     has_stats |-> hasstats, current_heat |-> h, momentum |-> m]

\* getattr(a, 'role', 'participant').
RoleOf(a) == IF a.has_role THEN a.role ELSE "participant"

\* SimpleNamespace(agent_id="agent_default", role="participant", ...).
DefaultAgent == Agent("agent_default", TRUE, "participant", FALSE, 0, 0)

\* [a for a in agents if getattr(a, 'role', 'participant') == role].
RECURSIVE AgentsWithRole(_, _)
AgentsWithRole(agents, role) ==
    IF agents = <<>> THEN <<>>
    ELSE (IF RoleOf(Head(agents)) = role THEN <<Head(agents)>> ELSE <<>>)
         \o AgentsWithRole(Tail(agents), role)

\* The order in which the two nested loops of a tick visit (role, agent):
\* for role in role_order: for agent_db in [agents of that role].
RECURSIVE TickOrderFrom(_, _)
TickOrderFrom(agents, ri) ==
    IF ri > Len(role_order) THEN <<>>
    ELSE LET as == AgentsWithRole(agents, role_order[ri])
         IN [j \in 1..Len(as) |-> [role |-> role_order[ri], agent |-> as[j]]]
            \o TickOrderFrom(agents, ri + 1)

\* Variant: one loop over the roster, each agent stepping in its own role.
TickOrderByRoster(agents) ==
    [j \in 1..Len(agents) |-> [role |-> RoleOf(agents[j]), agent |-> agents[j]]]

TickOrder(agents) == TickOrderFrom(agents, 1)

\* Variant: the counter is returned without being advanced.
next_tick_stuck(c) == c

\* TickScheduler.next_tick: the new counter, which is also the value returned.
next_tick(c) == c + 1

\* Variant: the snapshot of a new GameState, not of the engine's.
snapshot_blank(st) == [current_tick |-> 0, heat |-> 0, momentum |-> 0]

\* GameState.snapshot().
snapshot(st) == [current_tick |-> st.current_tick, heat |-> st.heat, momentum |-> st.momentum]

\* Variant: the new hints replace the HintStore.
HintsReplace(old, new) == new

\* dict.update(new) on the HintStore.
HintsUpdate(old, new) ==
    [k \in DOMAIN old \cup DOMAIN new |-> IF k \in DOMAIN new THEN new[k] ELSE old[k]]

\* The decision substituted when send_prompt raises.
NoopStub ==
    JDict([k \in StubKeys |->
              CASE k = "action_id" -> JStr("noop")
                [] k = "description" -> JStr("Stub action")
                [] OTHER -> JDict(EmptyD)])

\* Variant: no except clause around send_prompt.
ActionDataUncaught(out) == out.data

\* try: action_data = send_prompt(...) except Exception: action_data = noop stub.
ActionData(out) == IF out.kind = "raise" THEN NoopStub ELSE out.data

\* meta.get(k) on the parsed meta, a dict here: None when the key is absent.
MetaGet(meta, k) == Get(meta.d, k, MNull)

\* Variant: the participant's action also heats the crowd.
ParticipantEffectHeats(st) ==
    [st EXCEPT !.momentum = st.momentum + 2, !.heat = st.heat + 1]

\* Variant: momentum += 1.
ParticipantEffectOne(st) == [st EXCEPT !.momentum = st.momentum + 1]

\* self.state.momentum += 2 (participant).
ParticipantEffect(st) == [st EXCEPT !.momentum = st.momentum + 2]

\* Variant: the pinfall leaves momentum alone.
PinfallEffectKeepsMomentum(st) == [st EXCEPT !.heat = st.heat + 1]

\* self.state.momentum = 0; self.state.heat += 1 (referee pinfall).
PinfallEffect(st) == [st EXCEPT !.momentum = 0, !.heat = st.heat + 1]

\* Variant: heat += 1.
AnnouncerEffectOne(st) == [st EXCEPT !.heat = st.heat + 1]

\* self.state.heat += 2 (announcer).
AnnouncerEffect(st) == [st EXCEPT !.heat = st.heat + 2]

\* Variant: the interference costs momentum.
InterfereEffectDrains(st) == [st EXCEPT !.heat = st.heat + 1, !.momentum = st.momentum - 1]

\* self.state.heat += 1; self.state.momentum += 1 (backstage interfere).
InterfereEffect(st) == [st EXCEPT !.heat = st.heat + 1, !.momentum = st.momentum + 1]

\* Variant: heat is clamped at zero.
CrowdEffectClamped(st, adj) ==
    [st EXCEPT !.heat = IF st.heat + adj < 0 THEN 0 ELSE st.heat + adj]

\* self.state.heat += adj (crowd).
CrowdEffect(st, adj) == [st EXCEPT !.heat = st.heat + adj]

\* The role's mutation of SharedState and HintStore (the if/elif chain), then
\* the crowd rule.  meta.get raises AttributeError when meta is no dict, and
\* dict.update raises when new_hints is truthy and no mapping.
Mutate(role, applied, meta, action_data, st, hints) ==
    LET keep == [raised |-> FALSE, state |-> st, hints |-> hints]
        boom == [raised |-> TRUE, state |-> st, hints |-> hints]
    IN
    IF role = "participant" /\ ~IsStr(applied.action_id, "noop")
    THEN [keep EXCEPT !.state = ParticipantEffect(st)]
    ELSE IF role = "referee"
    THEN IF meta.t # "dict" THEN boom
         ELSE IF IsStr(MetaGet(meta, "call"), "pinfall")
         THEN [keep EXCEPT !.state = PinfallEffect(st)]
         ELSE keep
    ELSE IF role = "announcer"
    THEN [keep EXCEPT !.state = AnnouncerEffect(st)]
    ELSE IF role = "promoter"
    THEN IF meta.t # "dict" THEN boom
         ELSE IF MTruthy(MetaGet(meta, "new_hints"))
         THEN IF MetaGet(meta, "new_hints").t = "dict"
              THEN [keep EXCEPT !.hints = HintsUpdate(hints, MetaGet(meta, "new_hints").h)]
              ELSE boom
         ELSE keep
    ELSE IF role = "backstage"
    THEN IF meta.t # "dict" THEN boom
         ELSE IF IsStr(MetaGet(meta, "action"), "interfere")
         THEN [keep EXCEPT !.state = InterfereEffect(st)]
         ELSE keep
    ELSE IF role = "crowd"
    THEN LET adj == Get(action_data.d, "heat_adjustment", JNull)
         IN IF IsInstanceInt(adj)
            THEN [keep EXCEPT !.state = CrowdEffect(st, adj.i)]
            ELSE keep
    ELSE keep

\* The early-exit test of a step: "raise" when meta.get raises, else whether
\* the step is a finisher.
FinisherCheck(role, action_id, meta) ==
    IF role # "participant" THEN "no"
    ELSE IF IsStr(action_id, "finisher") THEN "yes"
    ELSE IF meta.t # "dict" THEN "raise"
    ELSE IF IsStr(MetaGet(meta, "move_type"), "finisher") THEN "yes"
    ELSE "no"

(***************************************************************************)
(* Inputs: rosters, hint maps, run_ticks arguments and the outcomes of one  *)
(* call of llm_client.send_prompt.                                          *)
(***************************************************************************)
\* The engine starts at most MaxTicks ticks in a behaviour.
MaxTicks == 2

NValues == -1..MaxTicks

Rosters ==
    { <<>>,
      <<Agent("agent1", FALSE, "", FALSE, 0, 0)>>,
      <<Agent("agentX", TRUE, "participant", TRUE, 42, 7)>>,
      <<Agent("c1", TRUE, "crowd", TRUE, 0, 0)>>,
      <<Agent("b1", TRUE, "backstage", TRUE, 0, 0)>>,
      <<Agent("r2", TRUE, "referee", TRUE, 0, 0)>>,
      <<Agent("an2", TRUE, "announcer", TRUE, 0, 0)>>,
      <<Agent("pr2", TRUE, "promoter", TRUE, 0, 0)>>,
      <<Agent("m1", TRUE, "manager", TRUE, 0, 0)>>,
      <<Agent("p1", TRUE, "participant", TRUE, 0, 0), Agent("p2", TRUE, "participant", TRUE, 0, 0)>>,
      <<Agent("r1", TRUE, "referee", TRUE, 0, 0), Agent("p1", TRUE, "participant", TRUE, 0, 0)>>,
      <<Agent("an1", TRUE, "announcer", TRUE, 0, 0), Agent("pr1", TRUE, "promoter", TRUE, 0, 0)>> }

HintMaps ==
    { EmptyH,
      [k \in {"b"} |-> 1] }

\* {action_id: a, description: ds, meta: m}.
Stub(a, ds, m) ==
    JDict([k \in StubKeys |->
              CASE k = "action_id" -> JStr(a)
                [] k = "description" -> JStr(ds)
                [] OTHER -> JDict(m)])

\* A JSON object with one or two keys.
Obj1(k1, v1) == JDict([k \in {k1} |-> v1])
Obj2(k1, v1, k2, v2) == JDict([k \in {k1, k2} |-> IF k = k1 THEN v1 ELSE v2])

Meta1(k1, v1) == [k \in {k1} |-> v1]

\* Decisions any role may get: the test double, and replies that parse as
\* JSON but are no decision object.
CommonDecisions ==
    { Stub("x", "fake", EmptyD),
      JList,
      Obj2("action_id", JStr("x"), "meta", JStr("oops")) }

ParticipantDecisions ==
    { Stub("noop", "Stub", EmptyD),
      Stub("finisher", "fake", EmptyD),
      Stub("slam", "fake", Meta1("move_type", MStr("finisher"))),
      Stub("noop", "fake", Meta1("move_type", MStr("finisher"))),
      Obj2("event_id", JStr("e"), "chosen_action_id", JStr("punch")),
      Obj2("event_id", JStr("e"), "chosen_action_id", JStr("finisher")),
      Obj2("action_id", JStr("x"), "description", JNull) }

RefereeDecisions ==
    { Obj2("call", JStr("pinfall"), "reason", JStr("3")),
      Obj1("call", JStr("dq")),
      Stub("c", "fake", Meta1("call", MStr("pinfall"))) }

CrowdDecisions ==
    { Obj2("reaction", JStr("pop"), "heat_adjustment", JInt(3)),
      Obj2("reaction", JStr("boo"), "heat_adjustment", JInt(-2)),
      Obj1("reaction", JStr("boo")),
      Obj2("reaction", JStr("boo"), "heat_adjustment", JBool(1)),
      Obj2("reaction", JStr("boo"), "heat_adjustment", JStr("3")),
      Stub("c", "fake", Meta1("heat_adjustment", MInt(3))) }

AnnouncerDecisions ==
    { Obj1("commentary", JStr("wow")),
      Stub("finisher", "fake", EmptyD) }

PromoterDecisions ==
    { Obj1("new_hints", JHints([k \in {"a"} |-> 2])),
      Obj1("new_hints", JHints([k \in {"b"} |-> 2])),
      Obj1("new_hints", JHints(EmptyH)),
      Obj1("new_hints", JStr("abc")),
      Stub("p", "fake", Meta1("new_hints", MDict([k \in {"a"} |-> 2]))),
      Stub("p", "fake", Meta1("new_hints", MStr("abc"))) }

BackstageDecisions ==
    { Obj2("action", JStr("interfere"), "description", JStr("run-in")),
      Obj1("action", JStr("distract")),
      Stub("b", "fake", Meta1("action", MStr("interfere"))) }

DecisionsFor(role) ==
    CommonDecisions \cup
    ( CASE role = "participant" -> ParticipantDecisions
        [] role = "referee" -> RefereeDecisions
        [] role = "crowd" -> CrowdDecisions
        [] role = "announcer" -> AnnouncerDecisions
        [] role = "promoter" -> PromoterDecisions
        [] OTHER -> BackstageDecisions )

\* The decisions drawn for the agents of a roster of several agents: a few
\* of each role's, so that the steps of one tick combine.
FewDecisionsFor(role) ==
    CASE role = "participant" ->
             { Stub("x", "fake", EmptyD), Stub("finisher", "fake", EmptyD), JList }
      [] role = "referee" ->
             { Stub("x", "fake", EmptyD),
               Obj2("call", JStr("pinfall"), "reason", JStr("3")),
               Obj2("action_id", JStr("x"), "meta", JStr("oops")) }
      [] role = "announcer" ->
             { Obj1("commentary", JStr("wow")) }
      [] role = "promoter" ->
             { Stub("x", "fake", EmptyD),
               Obj1("new_hints", JHints([k \in {"a"} |-> 2])),
               Stub("p", "fake", Meta1("new_hints", MStr("abc"))) }
      [] OTHER -> { Stub("x", "fake", EmptyD) }

\* One call of send_prompt plus the persistence sink's behaviour during the
\* step: kind "raise" (send_prompt raised) or "ret" (it returned data);
\* fail names the commit that fails for a reason of the store's own.
Outcome(kind, data, fail) == [kind |-> kind, data |-> data, fail |-> fail]

OutcomesFor(role, several) ==
    { Outcome("ret", dd, "none") :
          dd \in IF several THEN FewDecisionsFor(role) ELSE DecisionsFor(role) }
    \cup { Outcome("raise", JNull, "none") }
    \cup IF several THEN {}
         ELSE { Outcome("ret", Stub("x", "fake", EmptyD), "request"),
                Outcome("ret", Stub("x", "fake", EmptyD), "narrative") }

(***************************************************************************)
(* The decision source (src/core_engine/llm_client.py): LLMClient and the   *)
(* stub chooser LLMDispatcher.  A text is modelled by what json.loads makes *)
(* of it: the value it encodes, or a ValueError.                            *)
(***************************************************************************)
\* A text that encodes the JSON value v / a text that is no JSON (empty,
\* prose, or None in place of a text).
JsonText(v) == [json |-> TRUE, value |-> v]
NotJson == [json |-> FALSE, value |-> JNull]

\* json.loads(text): raised tells whether it raises.
json_loads(text) == [raised |-> ~text.json, value |-> text.value]

\* LLMDispatcher._ACTIONS.
_ACTIONS ==
    << <<"punch", "A quick right hand">>,
       <<"kick", "A stiff kick">>,
       <<"taunt", "Raises arms to taunt the crowd">> >>

\* LLMDispatcher.choose_action() for the entry random.choice picks, as the
\* dict send_prompt makes of it.
choose_action(k) == Stub(_ACTIONS[k][1], _ACTIONS[k][2], EmptyD)

ChooserOutputs == { choose_action(k) : k \in 1..Len(_ACTIONS) }

\* fallback_model; the other model name stands for any configured model.
fallback_model == "gpt-4"
ModelNames == {"long-gemma:latest", fallback_model}

\* The values a reply's content may encode.
ContentValues ==
    { Stub("mockfoo", "mockbar", EmptyD),
      Obj2("event_id", JStr("e1"), "chosen_action_id", JStr("punch")),
      JList,
      JStr("ok") }

Texts == { JsonText(v) : v \in ContentValues } \cup {NotJson}

\* What httpx.post does: it raises (connection failure, timeout), or returns
\* a response with a status code and a body.  body is "not_json" (empty or
\* no JSON: resp.json() raises), "no_choices" (JSON without
\* choices[0].message.content) or "choices" (with it, content being the text).
Reply(kind, status, body, err, content) ==
    [kind |-> kind, status |-> status, body |-> body, err |-> err, content |-> content]

ConnError == Reply("conn_error", 0, "none", "", NotJson)
Response(status, body, content) == Reply("response", status, body, "", content)

StatusCodes == {200, 400, 500}

ProxyReplies ==
    {ConnError}
    \cup { Response(st, b, NotJson) : st \in StatusCodes, b \in {"not_json", "no_choices"} }
    \cup { Response(st, "choices", tx) : st \in StatusCodes, tx \in Texts }

\* Variant: the status of the response is not looked at.
raise_for_status_never(status) == FALSE

\* resp.raise_for_status() raises.
raise_for_status(status) == status >= 400

\* The fixed decision of the local-proxy branch's except clauses.
ProxyFallback == NoopStub

\* The local-proxy branch of send_prompt, after httpx.post: the value
\* returned and where it comes from.
ProxyResult(reply) ==
    IF reply.kind = "conn_error" THEN [from |-> "noop", value |-> ProxyFallback]
    ELSE IF raise_for_status(reply.status) THEN [from |-> "noop", value |-> ProxyFallback]
    ELSE IF reply.body # "choices" \/ json_loads(reply.content).raised
    THEN [from |-> "noop", value |-> ProxyFallback]
    ELSE [from |-> "decoded", value |-> json_loads(reply.content).value]

\* What openai.chat.completions.create does: it raises with an error text
\* (err "model_not_found" when the provider reports the model unknown,
\* "other" for a connection failure or another error status), or returns a
\* response whose choices[0].message.content is the text.
ProviderError(err) == Reply("error", 0, "none", err, NotJson)
ProviderResponse(content) == Reply("response", 200, "choices", "", content)

ProviderReplies ==
    { ProviderError("model_not_found"), ProviderError("other") }
    \cup { ProviderResponse(tx) : tx \in Texts }

\* The try block around one provider call fails: create raises or json.loads does.
ProviderCallFails(reply) == reply.kind = "error" \/ json_loads(reply.content).raised

\* str(e) of the exception the try block raised: a JSON error's text does not
\* name the model.
ErrText(reply) == IF reply.kind = "error" THEN reply.err ELSE "other"

\* Variant: the retry does not look at the configured model.
ShouldRetryAlways(err_text, model_name) == err_text = "model_not_found"

\* "model_not_found" in err_text and self.model_name != fallback_model.
ShouldRetry(err_text, model_name) ==
    err_text = "model_not_found" /\ model_name # fallback_model

\* Variant: the hosted branch falls back to the fixed noop decision.
HostedFallbackNoop(k) == NoopStub

\* The dispatcher fallback at the end of send_prompt.
HostedFallback(k) == choose_action(k)

\* An LLMClient after __init__: force_remote (a local proxy is configured),
\* has_key (OPENAI_AVAILABLE and self.api_key), model_name; and one
\* send_prompt call: pc ("idle", "post", "create", "retry", "done"), the
\* calls made to the service so far (model used, reply got), the value
\* returned and where it comes from ("decoded", "noop", "chooser").
Client(fr, key, model) ==
    [force_remote |-> fr, has_key |-> key, model_name |-> model,
     pc |-> "idle", log |-> <<>>, from |-> "none", value |-> JNull]

\* The clients of every configuration (the tests set force_remote directly).
Clients ==
    { Client(fr, key, model) : fr \in BOOLEAN, key \in BOOLEAN, model \in ModelNames }

\* The client of an engine whose send_prompt is replaced by a test double.
ClientOff == Client(FALSE, FALSE, fallback_model)

(***************************************************************************)
(* State.                                                                   *)
(***************************************************************************)
VARIABLES
    counter,          \* TickScheduler._counter
    state,            \* Engine.state (GameState)
    promoter_hints,   \* Engine.promoter_hints (the HintStore)
    agents_table,     \* the rows get_agents returns
    engine_requests,  \* rows of engine_requests, in insertion order
    narrative_logs,   \* rows of narrative_logs, in insertion order
    pc,               \* "idle", "loop", "tick", "returned", "raised"
    n,                \* run_ticks' argument
    iter,             \* iterations of the tick loop started by this call
    tick_index,       \* run_ticks' tick_index
    todo,             \* the (role, agent) steps of this tick still to run
    results,          \* run_ticks' results list
    last,             \* the locals of the step run last
    decided,          \* history: the outcomes of this call's decision calls
    tick_log,         \* history: the values next_tick has returned, in order
    llm,              \* an LLMClient and its send_prompt call in progress
    calls             \* the locals of the run_ticks calls of two host threads

engine_vars == <<counter, state, promoter_hints, agents_table, engine_requests,
                 narrative_logs, pc, n, iter, tick_index, todo, results, last,
                 decided, tick_log>>

vars == <<engine_vars, llm, calls>>

Max(a, b) == IF a >= b THEN a ELSE b

\* The host threads that may call run_ticks on the one engine_instance.
CallIds == {1, 2}

\* The locals of one run_ticks call: pc ("idle", "loop", "send", "apply",
\* "returned", "raised"), n, the iterations started, tick_index, the steps of
\* the tick still to run, results, and action_data once send_prompt is back.
IdleCall ==
    [pc |-> "idle", n |-> 0, iter |-> 0, tick_index |-> 0, todo |-> <<>>,
     results |-> <<>>, action_data |-> JNull]

NoCalls == [c \in CallIds |-> IdleCall]

\* Variant: range(n), without the max.
TickCountNoMax(nn) == IF nn >= 0 THEN nn ELSE 0

\* range(max(1, n)): the number of ticks a call runs.
TickCount(nn) == Max(1, nn)

\* Variant: heat and momentum always read from the engine's state.
state_payload_shared(tick, agent, st) ==
    [current_tick |-> tick, heat |-> st.heat, momentum |-> st.momentum,
     opponent_id |-> JNull, stipulation |-> "StandardMatch",
     current_spot |-> [segment |-> tick], mode |-> "tick"]

\* The state_payload dict of a step.  getattr(agent_db, "current_heat",
\* self.state.heat): the roster entry's value when it has the attribute.
\* gimmick_description, a text of the roster entry, is left out.
state_payload(tick, agent, st) ==
    [current_tick |-> tick,
     heat |-> IF agent.has_stats THEN agent.current_heat ELSE st.heat,
     momentum |-> IF agent.has_stats THEN agent.momentum ELSE st.momentum,
     opponent_id |-> JNull, stipulation |-> "StandardMatch",
     current_spot |-> [segment |-> tick], mode |-> "tick"]

\* [PossibleAction(action_id=aid, name=aid, description=desc) for aid, desc
\* in self.dispatcher._ACTIONS], as model_dump() gives them.
available_actions ==
    [k \in 1..Len(_ACTIONS) |->
        [action_id |-> _ACTIONS[k][1], name |-> _ACTIONS[k][1],
         description |-> _ACTIONS[k][2], requires_target |-> FALSE]]

\* Variant: the prompt is built without the hints.
build_prompt_no_hints(role, agent_id, st, actions, hints) ==
    [role |-> role, requesting_agent_id |-> agent_id, state |-> st,
     available_actions |-> actions, hints |-> EmptyH]

\* PromptBuilder.build_prompt(context, hints): the fields of the context and
\* the hints.  The texts that depend on the role alone (preamble,
\* response_schema) and the fresh event_id are left out.
build_prompt(role, agent_id, st, actions, hints) ==
    [role |-> role, requesting_agent_id |-> agent_id, state |-> st,
     available_actions |-> actions, hints |-> hints]

NoStep ==
    [role |-> "", agent_id |-> "", tick |-> 0, kind |-> "", fail |-> "", action_data |-> JNull,
     action_id |-> JNull, description |-> JNull, meta |-> JNull, status |-> "none",
     prompt |-> build_prompt("", "", state_payload(0, DefaultAgent,
                                 [current_tick |-> 0, heat |-> 0, momentum |-> 0]),
                             <<>>, EmptyH)]

\* Engine.__init__ and the module-level engine_instance.
Init ==
    /\ counter = 0
    /\ state = [current_tick |-> 0, heat |-> 0, momentum |-> 0]
    /\ promoter_hints = EmptyH
    /\ agents_table \in Rosters
    /\ engine_requests = <<>>
    /\ narrative_logs = <<>>
    /\ pc = "idle"
    /\ n = 0
    /\ iter = 0
    /\ tick_index = 0
    /\ todo = <<>>
    /\ results = <<>>
    /\ last = NoStep
    /\ decided = {}
    /\ tick_log = <<>>
    /\ llm = ClientOff
    /\ calls = NoCalls

NoCall == pc \in {"idle", "returned", "raised"}

\* Variant: the hints are merged into the HintStore.
set_hints_merge(hints) ==
    /\ NoCall
    /\ promoter_hints' = HintsUpdate(promoter_hints, hints)
    /\ UNCHANGED <<counter, state, agents_table, engine_requests, narrative_logs,
                   pc, n, iter, tick_index, todo, results, last, decided, tick_log, llm, calls>>

\* Engine.set_hints(hints).
set_hints(hints) ==
    /\ NoCall
    /\ promoter_hints' = hints
    /\ UNCHANGED <<counter, state, agents_table, engine_requests, narrative_logs,
                   pc, n, iter, tick_index, todo, results, last, decided, tick_log, llm, calls>>

\* Entry of Engine.run_ticks(n): results = [], db = SessionLocal().
RunTicks(nn) ==
    /\ NoCall
    /\ counter + TickCount(nn) <= MaxTicks
    /\ n' = nn
    /\ iter' = 0
    /\ results' = <<>>
    /\ todo' = <<>>
    /\ decided' = {}
    /\ pc' = "loop"
    /\ UNCHANGED <<counter, state, promoter_hints, agents_table, engine_requests,
                   narrative_logs, tick_index, last, tick_log, llm, calls>>

\* get_agents(db), with the default participant when it returns nothing.
FetchAgents(table) == IF table = <<>> THEN <<DefaultAgent>> ELSE table

\* One iteration of "for _ in range(max(1, n))" up to the role loop.
TickStart ==
    /\ pc = "loop"
    /\ iter < TickCount(n)
    /\ counter' = next_tick(counter)
    /\ tick_index' = counter'
    /\ tick_log' = Append(tick_log, tick_index')
    /\ state' = [state EXCEPT !.current_tick = tick_index']
    /\ iter' = iter + 1
    /\ todo' = TickOrder(FetchAgents(agents_table))
    /\ pc' = IF todo' = <<>> THEN "loop" ELSE "tick"
    /\ UNCHANGED <<promoter_hints, agents_table, engine_requests, narrative_logs,
                   n, results, last, decided, llm, calls>>

\* Variant: the row keeps the column's default status.
RequestRowPending(agent_id, role, tick) ==
    [agent_id |-> agent_id, due_tick |-> tick, role |-> role, status |-> "pending"]

\* The row written to engine_requests (role is part of context_json).
RequestRow(agent_id, role, tick) ==
    [agent_id |-> agent_id, due_tick |-> tick, role |-> role, status |-> "processed"]

\* Engine.get_pending_requests(): the rows with status "pending".
get_pending_requests == SelectSeq(engine_requests, LAMBDA r : r.status = "pending")

\* db.commit() of the EngineRequest raises: the store fails.
RequestCommitRaises(out) == out.fail = "request"

\* Variant: a failed commit of the NarrativeLog is swallowed.
NarrativeCommitSwallowed(out, description) == FALSE

\* db.commit() of the NarrativeLog raises: the store fails, or description is
\* None (NOT NULL).
NarrativeCommitRaises(out, description) == out.fail = "narrative" \/ description.t = "null"

\* Variant: the row is written without the description of the step.
NarrativeRowNoText(tick, agent_id, role, description) ==
    [tick_id |-> tick, time_index |-> tick, agent_id |-> agent_id, role |-> role,
     description |-> JStr("")]

\* The row written to narrative_logs; tick_id is one fresh id per tick.
NarrativeRow(tick, agent_id, role, description) ==
    [tick_id |-> tick, time_index |-> tick, agent_id |-> agent_id, role |-> role,
     description |-> description]

TickResult(tick, agent_id, role, applied, st) ==
    [tick_id |-> tick, time_index |-> tick, agent_id |-> agent_id, role |-> role,
     applied_actions |-> <<applied>>, state_snapshot |-> snapshot(st)]

\* Variant: the finisher only leaves the agent loop, as a break would.
AfterFinisherBreak(rest) == [pc |-> IF rest = <<>> THEN "loop" ELSE "tick", todo |-> rest]

\* What the step does after a finisher: "return results".
AfterFinisher(rest) == [pc |-> "returned", todo |-> <<>>]

\* What the step does after appending its result: the next step of the tick,
\* or back to the tick loop.
AfterAppend(rest) == [pc |-> IF rest = <<>> THEN "loop" ELSE "tick", todo |-> rest]

\* One role/agent step of run_ticks, from the prompt to the appended result.
Step(out) ==
    /\ LET role == Head(todo).role
           agent_id == Head(todo).agent.agent_id
           action_data == ActionData(out)
           p == _parse_action_data(role, action_data)
           applied == validate(p.action_id, p.description, p.meta)
           mu == Mutate(role, applied, p.meta, action_data, state, promoter_hints)
           fin == FinisherCheck(role, p.action_id, p.meta)
           loc == [role |-> role, agent_id |-> agent_id, tick |-> tick_index,
                   kind |-> out.kind,
                   fail |-> out.fail, action_data |-> action_data,
                   action_id |-> p.action_id, description |-> p.description,
                   meta |-> p.meta, status |-> "none",
                   prompt |-> build_prompt(role, agent_id,
                                  state_payload(tick_index, Head(todo).agent, state),
                                  available_actions, promoter_hints)]
           raise == /\ pc' = "raised"
                    /\ todo' = <<>>
                    /\ results' = results
                    /\ last' = [loc EXCEPT !.status = "raised"]
       IN
       /\ IF RequestCommitRaises(out)
          THEN /\ raise
               /\ UNCHANGED <<state, promoter_hints, engine_requests, narrative_logs>>
          ELSE
          /\ engine_requests' = Append(engine_requests, RequestRow(agent_id, role, tick_index))
          /\ IF p.raised \/ mu.raised
             THEN /\ raise
                  /\ UNCHANGED <<state, promoter_hints, narrative_logs>>
             ELSE
             /\ state' = mu.state
             /\ promoter_hints' = mu.hints
             /\ IF NarrativeCommitRaises(out, p.description)
                THEN /\ raise
                     /\ UNCHANGED narrative_logs
                ELSE
                /\ narrative_logs' = Append(narrative_logs,
                       NarrativeRow(tick_index, agent_id, role, p.description))
                /\ CASE fin = "raise" -> raise
                     [] fin = "yes" ->
                          /\ pc' = AfterFinisher(Tail(todo)).pc
                          /\ todo' = AfterFinisher(Tail(todo)).todo
                          /\ results' = results
                          /\ last' = [loc EXCEPT !.status = "finisher"]
                     [] OTHER ->
                          /\ pc' = AfterAppend(Tail(todo)).pc
                          /\ todo' = AfterAppend(Tail(todo)).todo
                          /\ results' = Append(results,
                                 TickResult(tick_index, agent_id, role, applied, mu.state))
                          /\ last' = [loc EXCEPT !.status = "appended"]
    /\ decided' = decided \cup {out}
    /\ UNCHANGED <<counter, agents_table, n, iter, tick_index, tick_log, llm, calls>>

\* The tick loop is exhausted: "return results".
Return ==
    /\ pc = "loop"
    /\ iter >= TickCount(n)
    /\ pc' = "returned"
    /\ UNCHANGED <<counter, state, promoter_hints, agents_table, engine_requests,
                   narrative_logs, n, iter, tick_index, todo, results, last,
                   decided, tick_log, llm, calls>>

\* The step due next, with any outcome of its decision call.
StepAny ==
    /\ pc = "tick"
    /\ todo # <<>>
    /\ \E out \in OutcomesFor(Head(todo).role, Len(agents_table) > 1) : Step(out)

Next ==
    \/ \E h \in HintMaps : set_hints(h)
    \/ \E nn \in NValues : RunTicks(nn)
    \/ TickStart
    \/ StepAny
    \/ Return

Spec == Init /\ [][Next]_vars

\* The engine in a host that never stops using it: while some operation can
\* change the state, one is eventually run.
FairSpec == Spec /\ WF_vars(Next)

(***************************************************************************)
(* One LLMClient on its own: send_prompt, step by step.                     *)
(***************************************************************************)
ClientInit ==
    /\ counter = 0
    /\ state = [current_tick |-> 0, heat |-> 0, momentum |-> 0]
    /\ promoter_hints = EmptyH
    /\ agents_table = <<>>
    /\ engine_requests = <<>>
    /\ narrative_logs = <<>>
    /\ pc = "idle"
    /\ n = 0
    /\ iter = 0
    /\ tick_index = 0
    /\ todo = <<>>
    /\ results = <<>>
    /\ last = NoStep
    /\ decided = {}
    /\ tick_log = <<>>
    /\ llm \in Clients
    /\ calls = NoCalls

Returned(c, from, value) == [c EXCEPT !.pc = "done", !.from = from, !.value = value]

Called(c, model, reply) == [c EXCEPT !.log = Append(c.log, [model |-> model, reply |-> reply])]

\* Entry of send_prompt(prompt): the branch taken; with neither a proxy nor
\* a key, the dispatcher fallback at once.
send_prompt ==
    /\ llm.pc \in {"idle", "done"}
    /\ LET c == [llm EXCEPT !.log = <<>>, !.from = "none", !.value = JNull]
       IN IF llm.force_remote THEN llm' = [c EXCEPT !.pc = "post"]
          ELSE IF llm.has_key THEN llm' = [c EXCEPT !.pc = "create"]
          ELSE \E k \in 1..Len(_ACTIONS) : llm' = Returned(c, "chooser", HostedFallback(k))
    /\ UNCHANGED <<engine_vars, calls>>

\* The local-proxy branch: httpx.post and what follows it.
ProxyPost(reply) ==
    /\ llm.pc = "post"
    /\ llm' = Returned(Called(llm, llm.model_name, reply),
                       ProxyResult(reply).from, ProxyResult(reply).value)
    /\ UNCHANGED <<engine_vars, calls>>

\* The hosted branch: the call with the configured model.
HostedCreate(reply) ==
    /\ llm.pc = "create"
    /\ LET c == Called(llm, llm.model_name, reply)
       IN IF ~ProviderCallFails(reply)
          THEN llm' = Returned(c, "decoded", json_loads(reply.content).value)
          ELSE IF ShouldRetry(ErrText(reply), llm.model_name)
          THEN llm' = [c EXCEPT !.pc = "retry"]
          ELSE \E k \in 1..Len(_ACTIONS) : llm' = Returned(c, "chooser", HostedFallback(k))
    /\ UNCHANGED <<engine_vars, calls>>

\* The hosted branch: the retry with the fallback model.
HostedRetry(reply) ==
    /\ llm.pc = "retry"
    /\ LET c == Called(llm, fallback_model, reply)
       IN IF ~ProviderCallFails(reply)
          THEN llm' = Returned(c, "decoded", json_loads(reply.content).value)
          ELSE \E k \in 1..Len(_ACTIONS) : llm' = Returned(c, "chooser", HostedFallback(k))
    /\ UNCHANGED <<engine_vars, calls>>

ClientNext ==
    \/ send_prompt
    \/ \E reply \in ProxyReplies : ProxyPost(reply)
    \/ \E reply \in ProviderReplies : HostedCreate(reply)
    \/ \E reply \in ProviderReplies : HostedRetry(reply)

ClientSpec == ClientInit /\ [][ClientNext]_vars

(***************************************************************************)
(* Two host threads calling run_ticks on the same engine (the gateway runs  *)
(* advance_engine in a thread pool; the engine holds no lock).  A thread    *)
(* can be switched out wherever it blocks: each call advances by the        *)
(* actions below, and the actions of the two calls interleave freely.       *)
(***************************************************************************)
ConcRosters ==
    { <<Agent("agentX", TRUE, "participant", TRUE, 42, 7)>>,
      <<Agent("p1", TRUE, "participant", TRUE, 0, 0), Agent("p2", TRUE, "participant", TRUE, 0, 0)>>,
      <<Agent("an1", TRUE, "announcer", TRUE, 0, 0), Agent("pr1", TRUE, "promoter", TRUE, 0, 0)>> }

ConcInit ==
    /\ counter = 0
    /\ state = [current_tick |-> 0, heat |-> 0, momentum |-> 0]
    /\ promoter_hints = EmptyH
    /\ agents_table \in ConcRosters
    /\ engine_requests = <<>>
    /\ narrative_logs = <<>>
    /\ pc = "idle"
    /\ n = 0
    /\ iter = 0
    /\ tick_index = 0
    /\ todo = <<>>
    /\ results = <<>>
    /\ last = NoStep
    /\ decided = {}
    /\ tick_log = <<>>
    /\ llm = ClientOff
    /\ calls = NoCalls

InProgress(c) == calls[c].pc \in {"loop", "send", "apply"}

\* The ticks call c has still to start.
Remaining(c) == IF InProgress(c) THEN TickCount(calls[c].n) - calls[c].iter ELSE 0

\* The ticks started so far plus those the calls in progress will start.
TicksReserved == counter + Remaining(1) + Remaining(2)

ConcUnchanged == <<pc, n, iter, tick_index, todo, results, last, decided, llm>>

\* Entry of run_ticks(n) in thread c.
ConcRunTicks(c, nn) ==
    /\ ~InProgress(c)
    /\ TicksReserved + TickCount(nn) <= MaxTicks
    /\ calls' = [calls EXCEPT ![c] = [IdleCall EXCEPT !.pc = "loop", !.n = nn]]
    /\ UNCHANGED <<counter, state, promoter_hints, agents_table, engine_requests,
                   narrative_logs, tick_log>>
    /\ UNCHANGED ConcUnchanged

\* One iteration of the tick loop of call c, up to the role loop.
ConcTickStart(c) ==
    /\ calls[c].pc = "loop"
    /\ calls[c].iter < TickCount(calls[c].n)
    /\ counter' = next_tick(counter)
    /\ tick_log' = Append(tick_log, counter')
    /\ state' = [state EXCEPT !.current_tick = counter']
    /\ LET steps == TickOrder(FetchAgents(agents_table))
       IN calls' = [calls EXCEPT ![c].tick_index = counter',
                                 ![c].iter = calls[c].iter + 1,
                                 ![c].todo = steps,
                                 ![c].pc = IF steps = <<>> THEN "loop" ELSE "send"]
    /\ UNCHANGED <<promoter_hints, agents_table, engine_requests, narrative_logs>>
    /\ UNCHANGED ConcUnchanged

\* send_prompt of the step of call c comes back (the thread was blocked on
\* the network): action_data is what it returned, or the noop stub.
ConcSend(c, out) ==
    /\ calls[c].pc = "send"
    /\ calls' = [calls EXCEPT ![c].action_data = ActionData(out), ![c].pc = "apply"]
    /\ UNCHANGED <<counter, state, promoter_hints, agents_table, engine_requests,
                   narrative_logs, tick_log>>
    /\ UNCHANGED ConcUnchanged

\* The pc of a call after a step, from the pc the sequential engine has there.
ConcPc(p) == IF p = "tick" THEN "send" ELSE p

\* The rest of the step of call c: both commits, the parse, the mutation, the
\* finisher check and the appended result.
ConcApply(c) ==
    /\ calls[c].pc = "apply"
    /\ LET me == calls[c]
           role == Head(me.todo).role
           agent_id == Head(me.todo).agent.agent_id
           p == _parse_action_data(role, me.action_data)
           applied == validate(p.action_id, p.description, p.meta)
           mu == Mutate(role, applied, p.meta, me.action_data, state, promoter_hints)
           fin == FinisherCheck(role, p.action_id, p.meta)
           raised == [me EXCEPT !.pc = "raised", !.todo = <<>>]
       IN
       /\ engine_requests' = Append(engine_requests, RequestRow(agent_id, role, me.tick_index))
       /\ IF p.raised \/ mu.raised
          THEN /\ calls' = [calls EXCEPT ![c] = raised]
               /\ UNCHANGED <<state, promoter_hints, narrative_logs>>
          ELSE
          /\ state' = mu.state
          /\ promoter_hints' = mu.hints
          /\ IF p.description.t = "null"
             THEN /\ calls' = [calls EXCEPT ![c] = raised]
                  /\ UNCHANGED narrative_logs
             ELSE
             /\ narrative_logs' = Append(narrative_logs,
                    NarrativeRow(me.tick_index, agent_id, role, p.description))
             /\ CASE fin = "raise" -> calls' = [calls EXCEPT ![c] = raised]
                  [] fin = "yes" ->
                       calls' = [calls EXCEPT
                                   ![c].pc = ConcPc(AfterFinisher(Tail(me.todo)).pc),
                                   ![c].todo = AfterFinisher(Tail(me.todo)).todo]
                  [] OTHER ->
                       calls' = [calls EXCEPT
                                   ![c].pc = ConcPc(AfterAppend(Tail(me.todo)).pc),
                                   ![c].todo = AfterAppend(Tail(me.todo)).todo,
                                   ![c].results = Append(me.results,
                                       TickResult(me.tick_index, agent_id, role, applied, mu.state))]
    /\ UNCHANGED <<counter, agents_table, tick_log>>
    /\ UNCHANGED ConcUnchanged

\* The tick loop of call c is exhausted: "return results".
ConcReturn(c) ==
    /\ calls[c].pc = "loop"
    /\ calls[c].iter >= TickCount(calls[c].n)
    /\ calls' = [calls EXCEPT ![c].pc = "returned"]
    /\ UNCHANGED <<counter, state, promoter_hints, agents_table, engine_requests,
                   narrative_logs, tick_log>>
    /\ UNCHANGED ConcUnchanged

ConcSendAny(c) ==
    /\ calls[c].pc = "send"
    /\ \E out \in OutcomesFor(Head(calls[c].todo).role, TRUE) : ConcSend(c, out)

ConcNext ==
    \E c \in CallIds :
        \/ \E nn \in 1..MaxTicks : ConcRunTicks(c, nn)
        \/ ConcTickStart(c)
        \/ ConcSendAny(c)
        \/ ConcApply(c)
        \/ ConcReturn(c)

ConcSpec == ConcInit /\ [][ConcNext]_vars
(***************************************************************************)
(* Properties.                                                              *)
(***************************************************************************)
\* A transition out of pc = "tick" is one Step.  The step got as far as...
RequestWritten == Len(engine_requests') = Len(engine_requests) + 1
NarrativeWritten == Len(narrative_logs') = Len(narrative_logs) + 1

\* The early-exit condition on the parsed decision of a step.
FinisherDecision(l) ==
    /\ l.role = "participant"
    /\ \/ IsStr(l.action_id, "finisher")
       \/ l.meta.t = "dict" /\ IsStr(MetaGet(l.meta, "move_type"), "finisher")

LastApplied == results[Len(results)].applied_actions[1]

\* C1: a participant step whose parsed action id is "finisher", or whose
\* metadata has move_type "finisher", ends the call at once: run_ticks
\* returns the results accumulated so far, the rest of the tick and the
\* remaining ticks are dropped, and once the call has returned no request,
\* narrative entry or tick is produced for it.
C1_FinisherEndsBatch ==
    [][ /\ (pc = "tick" /\ FinisherDecision(last') /\ NarrativeWritten)
           => (pc' = "returned" /\ results' = results /\ todo' = <<>>)
        /\ pc = "returned"
           => /\ engine_requests' = engine_requests
              /\ narrative_logs' = narrative_logs
              /\ counter' = counter
              /\ results' = results \/ pc' = "loop" ]_vars

\* C1 witness: a finisher ended a call that had results, with ticks left.
C1_Witness ==
    /\ pc = "returned"
    /\ last.status = "finisher"
    /\ FinisherDecision(last)
    /\ results # <<>>
    /\ iter < TickCount(n)

\* C2: when send_prompt raises, the step's AppliedAction is the noop stub
\* ("noop", "Stub action") and run_ticks goes on with the next step.
C2_RaiseGivesNoop ==
    [][ (pc = "tick" /\ last'.kind = "raise" /\ last'.fail = "none")
        => /\ pc' \in {"tick", "loop"}
           /\ todo' = Tail(todo)
           /\ Len(results') = Len(results) + 1
           /\ results'[Len(results')].applied_actions[1].action_id = JStr("noop")
           /\ results'[Len(results')].applied_actions[1].description = JStr("Stub action") ]_vars

\* C2 witness: a step whose decision call raised was appended, and the tick goes on.
C2_Witness ==
    /\ pc = "tick"
    /\ last.kind = "raise"
    /\ last.status = "appended"
    /\ results # <<>>
    /\ LastApplied.action_id = JStr("noop")

\* C3 (as claimed): run_ticks raises only when the store fails for a reason
\* of its own, never because of what the decision call returned.
C3_NeverRaisesOnDecision == pc = "raised" => last.fail # "none"

\* The decision the tests use as "a constant decision".
DecisionX == Stub("x", "fake", EmptyD)

\* C4 (as claimed): with an empty roster and the constant decision
\* {action_id: "x", description: "fake", meta: {}}, run_ticks(1) returns one
\* TickResult per role of role_order, each for agent_default with action id
\* "x", and on a fresh engine each snapshot has current_tick 1.
C4_EmptyRosterOnePerRole ==
    ( /\ pc = "returned"
      /\ agents_table = <<>>
      /\ n = 1
      /\ decided = {Outcome("ret", DecisionX, "none")} )
    => /\ Len(results) = Len(role_order)
       /\ \A i \in 1..Len(results) :
             /\ results[i].role = role_order[i]
             /\ results[i].agent_id = "agent_default"
             /\ results[i].applied_actions[1].action_id = JStr("x")
             /\ counter = 1 => results[i].state_snapshot.current_tick = 1

\* A decision object as the glossary has it: an object whose meta, if any, is
\* an object and whose description, if any, is a string.
WellFormed(data) ==
    /\ data.t = "dict"
    /\ Get(data.d, "meta", JDict(EmptyD)).t = "dict"
    /\ Get(data.d, "description", JStr("")).t = "str"

NotFinisher(data) ==
    LET p == _parse_action_data("participant", data)
    IN ~FinisherDecision([role |-> "participant", action_id |-> p.action_id, meta |-> p.meta])

\* Every decision call of this call had the same outcome, which is no
\* finisher, with the store working.
ConstantDecision ==
    /\ Cardinality(decided) <= 1
    /\ \A o \in decided :
          /\ o.fail = "none"
          /\ o.kind = "raise" \/ (WellFormed(o.data) /\ NotFinisher(o.data))

SingleParticipantRoster ==
    Len(agents_table) = 1 /\ RoleOf(agents_table[1]) = "participant"

\* C5: with a roster of one participant (role participant, or no role
\* attribute) and a constant decision that is no finisher, run_ticks(n) ends
\* by returning exactly max(1, n) TickResults, one per tick, in tick order.
C5_OneResultPerTick ==
    (pc \in {"returned", "raised"} /\ SingleParticipantRoster /\ ConstantDecision)
    => /\ pc = "returned"
       /\ Len(results) = Max(1, n)
       /\ \A i \in 1..Len(results) : results[i].time_index = counter - Max(1, n) + i

\* C5 witness: run_ticks(0) has returned one result, for the tick it ran.
C5_Witness ==
    /\ pc = "returned"
    /\ SingleParticipantRoster
    /\ decided = {Outcome("ret", DecisionX, "none")}
    /\ n = 0
    /\ Len(results) = 1
    /\ counter = MaxTicks

\* C6: next_tick returns 1, 2, ..., so the k-th tick started since
\* construction has index k, sets current_tick to k and stamps its results
\* with k, whatever calls came before.
C6_TickIndices ==
    /\ \A k \in 1..Len(tick_log) : tick_log[k] = k
    /\ state.current_tick = Len(tick_log)
    /\ pc = "tick" => tick_index = Len(tick_log)
    /\ \A i \in 1..Len(results) :
          /\ results[i].time_index \in 1..Len(tick_log)
          /\ results[i].state_snapshot.current_tick = results[i].time_index

\* C6 witness: the second tick, started by a call that follows one a finisher ended.
C6_Witness ==
    /\ pc = "tick"
    /\ iter = 1
    /\ tick_log = <<1, 2>>
    /\ state.current_tick = 2
    /\ last.status = "finisher"
    /\ last.tick = 1

\* The decision of a backstage step says action "interfere": in the backstage
\* response shape, or in the metadata of a stub-shaped decision.
InterfereDecision(l) ==
    /\ l.action_data.t = "dict"
    /\ \/ IsStr(Get(l.action_data.d, "action", JNull), "interfere")
       \/ l.meta.t = "dict" /\ IsStr(MetaGet(l.meta, "action"), "interfere")

\* C7 (as claimed): a backstage step whose decision has action "interfere",
\* in either shape, raises heat and momentum by exactly 1.
C7_InterfereRaisesBoth ==
    [][ (pc = "tick" /\ last'.role = "backstage" /\ InterfereDecision(last') /\ RequestWritten)
        => /\ state'.heat = state.heat + 1
           /\ state'.momentum = state.momentum + 1 ]_vars

\* C8: a crowd step changes heat by exactly the raw decision's
\* heat_adjustment when that is an integer (to Python: an int, true and
\* false counting as 1 and 0), and leaves heat unchanged otherwise.
C8_CrowdHeat ==
    [][ (pc = "tick" /\ last'.role = "crowd" /\ last'.action_data.t = "dict" /\ RequestWritten)
        => LET adj == Get(last'.action_data.d, "heat_adjustment", JNull)
           IN state'.heat = state.heat + (IF adj.t \in {"int", "bool"} THEN adj.i ELSE 0) ]_vars

\* C8 witness: a crowd step with heat_adjustment -2 has taken heat below zero.
C8_Witness ==
    /\ last.role = "crowd"
    /\ last.status = "appended"
    /\ last.action_data.t = "dict"
    /\ Get(last.action_data.d, "heat_adjustment", JNull) = JInt(-2)
    /\ state.heat = -2

\* The object of new hints in the parsed metadata of step l, if there is one.
HasNewHints(l) ==
    /\ l.meta.t = "dict"
    /\ "new_hints" \in DOMAIN l.meta.d
    /\ l.meta.d["new_hints"].t = "dict"

\* C9: a promoter step whose metadata has new_hints merges them key-wise
\* into the HintStore: every key of new_hints gets its new value, every
\* other key keeps its old value.
C9_PromoterMerges ==
    [][ (pc = "tick" /\ last'.role = "promoter" /\ HasNewHints(last') /\ RequestWritten)
        => LET nh == last'.meta.d["new_hints"].h
           IN /\ DOMAIN promoter_hints' = DOMAIN promoter_hints \cup DOMAIN nh
              /\ \A k \in DOMAIN nh : promoter_hints'[k] = nh[k]
              /\ \A k \in DOMAIN promoter_hints \ DOMAIN nh :
                    promoter_hints'[k] = promoter_hints[k] ]_vars

\* C9 witness: new_hints {a: 2} merged into {b: 1}: both keys are there.
C9_Witness ==
    /\ last.role = "promoter"
    /\ last.status = "appended"
    /\ HasNewHints(last)
    /\ DOMAIN last.meta.d["new_hints"].h = {"a"}
    /\ DOMAIN promoter_hints = {"a", "b"}
    /\ promoter_hints["a"] = 2
    /\ promoter_hints["b"] = 1

\* C10: a participant step raises momentum by exactly 2 when the applied
\* action id is not "noop", and leaves it unchanged when it is.
C10_ParticipantMomentum ==
    [][ (pc = "tick" /\ last'.role = "participant" /\ last'.action_data.t = "dict" /\ RequestWritten)
        => state'.momentum =
              state.momentum + (IF IsStr(last'.action_id, "noop") THEN 0 ELSE 2) ]_vars

\* C10 witness: a participant step with an action id other than "noop" was applied.
C10_Witness ==
    /\ last.role = "participant"
    /\ last.status = "appended"
    /\ results # <<>>
    /\ ~IsStr(LastApplied.action_id, "noop")
    /\ state.momentum = 4

\* C11: a referee step whose parsed metadata has call "pinfall" sets momentum
\* to 0 and raises heat by exactly 1; a referee step with any other call, or
\* none, changes neither heat nor momentum.
C11_RefereePinfall ==
    [][ (pc = "tick" /\ last'.role = "referee" /\ RequestWritten)
        => IF last'.meta.t = "dict" /\ IsStr(MetaGet(last'.meta, "call"), "pinfall")
           THEN state'.momentum = 0 /\ state'.heat = state.heat + 1
           ELSE state'.momentum = state.momentum /\ state'.heat = state.heat ]_vars

\* C11 witness: a pinfall call has reset the momentum a participant had built up.
C11_Witness ==
    /\ last.role = "referee"
    /\ last.status = "appended"
    /\ IsStr(MetaGet(last.meta, "call"), "pinfall")
    /\ Len(results) >= 2
    /\ results[Len(results) - 1].state_snapshot.momentum = 2
    /\ state.momentum = 0
    /\ state.heat = 1

\* C12: an announcer step raises heat by exactly 2 and leaves momentum alone,
\* whatever decision object it got, the noop stub that replaces a failed
\* decision call included.
C12_AnnouncerHeat ==
    [][ (pc = "tick" /\ last'.role = "announcer" /\ last'.action_data.t = "dict" /\ RequestWritten)
        => /\ state'.heat = state.heat + 2
           /\ state'.momentum = state.momentum ]_vars

\* C12 witness: an announcer step whose decision call raised has added 2 to heat.
C12_Witness ==
    /\ last.role = "announcer"
    /\ last.kind = "raise"
    /\ last.status = "appended"
    /\ results # <<>>
    /\ LastApplied.action_id = JStr("noop")
    /\ state.heat = 2

\* A step taken while no run_ticks call is in progress that starts none: a
\* set_hints call.
SetHintsStep == NoCall /\ pc' = pc

\* C13: set_hints(h) replaces the HintStore: right after the call the store
\* is h, so no key it had before (set earlier, or merged in by a promoter
\* step) survives unless h has it.
C13_SetHintsReplaces ==
    [][ /\ \A h \in HintMaps : set_hints(h) => promoter_hints' = h
        /\ SetHintsStep => promoter_hints' \in HintMaps ]_vars

\* C13 witness: the hints a promoter step merged in are gone after set_hints({}).
C13_Witness ==
    /\ pc = "returned"
    /\ last.role = "promoter"
    /\ last.status = "appended"
    /\ HasNewHints(last)
    /\ DOMAIN last.meta.d["new_hints"].h = {"a"}
    /\ promoter_hints = EmptyH

\* C17: no EngineRequest with status "pending" ever exists: every row has
\* status "processed" from the moment it is written, so get_pending_requests
\* returns the empty list after any sequence of set_hints and run_ticks calls.
C17_NoPendingRequests ==
    /\ \A i \in 1..Len(engine_requests) : engine_requests[i].status = "processed"
    /\ get_pending_requests = <<>>

\* C17 witness: hints were set, steps have written requests, and the last
\* call raised after writing its step's request.
C17_Witness ==
    /\ pc = "raised"
    /\ Len(engine_requests) >= 2
    /\ promoter_hints # EmptyH
    /\ get_pending_requests = <<>>

RoleIndex(role) == CHOOSE i \in 1..Len(role_order) : role_order[i] = role

RosterPos(id) ==
    CHOOSE i \in 1..Len(FetchAgents(agents_table)) : FetchAgents(agents_table)[i].agent_id = id

\* C18: the results of run_ticks are in execution order: time_index never
\* decreases along the list; within a tick the results follow role_order;
\* and the results of agents of one role within a tick follow the roster.
C18_ResultsInOrder ==
    \A i, j \in 1..Len(results) :
        i < j =>
          /\ results[i].time_index <= results[j].time_index
          /\ results[i].time_index = results[j].time_index
             => /\ RoleIndex(results[i].role) <= RoleIndex(results[j].role)
                /\ results[i].role = results[j].role
                   => RosterPos(results[i].agent_id) < RosterPos(results[j].agent_id)

\* C18 witness: the roster lists the referee before the participant; the
\* results of two ticks have the participant first in each tick.
C18_Witness ==
    /\ Len(agents_table) = 2
    /\ RoleOf(agents_table[1]) = "referee"
    /\ Len(results) = 3
    /\ results[1].role = "participant" /\ results[1].time_index = 1
    /\ results[2].role = "referee" /\ results[2].time_index = 1
    /\ results[3].role = "participant" /\ results[3].time_index = 2

IsPrefix(a, b) == Len(a) <= Len(b) /\ \A i \in 1..Len(a) : a[i] = b[i]

\* C20: a persistence failure propagates and rolls nothing back.  When the
\* commit of the EngineRequest or of the NarrativeLog fails, run_ticks
\* raises instead of returning results; the tick counter stays advanced and
\* the rows committed earlier remain; and when it is the narrative commit
\* that fails, the step's EngineRequest is committed and its SharedState
\* mutation applied (for the decision "x": +2 momentum for a participant,
\* +2 heat for an announcer).
C20_PersistenceFailurePropagates ==
    [][ /\ (pc = "tick" /\ last'.fail = "request")
           => /\ pc' = "raised"
              /\ engine_requests' = engine_requests
              /\ narrative_logs' = narrative_logs
              /\ state' = state
        /\ (pc = "tick" /\ last'.fail = "narrative")
           => /\ pc' = "raised"
              /\ engine_requests' =
                    Append(engine_requests,
                           [agent_id |-> last'.agent_id, due_tick |-> tick_index,
                            role |-> last'.role, status |-> "processed"])
              /\ narrative_logs' = narrative_logs
              /\ state'.momentum =
                    state.momentum + (IF last'.role = "participant" THEN 2 ELSE 0)
              /\ state'.heat = state.heat + (IF last'.role = "announcer" THEN 2 ELSE 0)
        /\ counter' >= counter
        /\ pc' = "raised" => counter' = counter /\ state'.current_tick = counter
        /\ IsPrefix(engine_requests, engine_requests')
        /\ IsPrefix(narrative_logs, narrative_logs') ]_vars

\* C20 witness: the narrative commit of the second tick's step failed; the
\* first tick's rows are there, the step's request is committed and its
\* momentum applied, and the counter stands at 2.
C20_Witness ==
    /\ pc = "raised"
    /\ last.fail = "narrative"
    /\ last.role = "participant"
    /\ counter = 2
    /\ state.momentum = 4
    /\ Len(engine_requests) = 2
    /\ Len(narrative_logs) = 1
\* The last call send_prompt made to the decision service.
LastCall == llm.log[Len(llm.log)]

\* A call to the decision service failed: no connection, an error raised by
\* the provider, an error status, or a reply whose content is no JSON text.
CallFailed(reply) ==
    \/ reply.kind # "response"
    \/ reply.status >= 400
    \/ reply.body # "choices"
    \/ ~reply.content.json

\* One entry of the punch/kick/taunt table, with empty metadata.
IsChooserOutput(v) ==
    /\ v.t = "dict"
    /\ DOMAIN v.d = {"action_id", "description", "meta"}
    /\ v.d["action_id"] \in {JStr("punch"), JStr("kick"), JStr("taunt")}
    /\ v.d["meta"] = JDict(EmptyD)

\* The fixed decision {action_id: "noop", description: "Stub action"}.
IsNoopDecision(v) ==
    /\ v.t = "dict"
    /\ Get(v.d, "action_id", JNull) = JStr("noop")
    /\ Get(v.d, "description", JNull) = JStr("Stub action")

\* C14 (as claimed): in both transport modes, when the call to the decision
\* service fails (connection failure, error status, reply that does not
\* parse), send_prompt returns the Stub Chooser's output.
C14_FailureGivesChooserOutput ==
    (llm.pc = "done" /\ llm.log # <<>> /\ CallFailed(LastCall.reply))
    => IsChooserOutput(llm.value)

\* C14 (amended): send_prompt always returns a value; when the last call it
\* made to the decision service failed, the value is the fixed noop decision
\* in local-proxy mode and the Stub Chooser's output in hosted-provider mode.
C14_FailureHandledPerMode ==
    /\ llm.pc = "done" => llm.from \in {"decoded", "noop", "chooser"}
    /\ (llm.pc = "done" /\ llm.log # <<>> /\ CallFailed(LastCall.reply))
       => IF llm.force_remote
          THEN IsNoopDecision(llm.value) /\ ~IsChooserOutput(llm.value)
          ELSE IsChooserOutput(llm.value)

\* C14 witness: in hosted mode the only call failed with an error other than
\* an unknown model, and send_prompt returned "kick" from the table.
C14_Witness ==
    /\ llm.pc = "done"
    /\ ~llm.force_remote
    /\ Len(llm.log) = 1
    /\ LastCall.reply.kind = "error"
    /\ llm.value.d["action_id"] = JStr("kick")

\* C15: in local-proxy mode send_prompt makes one call and returns the value
\* decoded from choices[0].message.content when the status is 2xx and the
\* content is JSON, and the noop decision ("noop", "Stub action") when the
\* status is an error status (400, 500) or the body is empty or no JSON.
C15_ProxyMode ==
    (llm.pc = "done" /\ llm.force_remote)
    => /\ Len(llm.log) = 1
       /\ LET r == LastCall.reply
          IN /\ (r.kind = "response" /\ r.status = 200 /\ r.body = "choices" /\ r.content.json)
                => llm.value = r.content.value
             /\ (r.kind = "response"
                 /\ (r.status \in {400, 500} \/ r.body # "choices" \/ ~r.content.json))
                => IsNoopDecision(llm.value)

\* C15 witness: a reply with status 500 whose body carries a decision gave
\* the noop decision.
C15_Witness ==
    /\ llm.pc = "done"
    /\ llm.force_remote
    /\ LastCall.reply.status = 500
    /\ LastCall.reply.body = "choices"
    /\ LastCall.reply.content.json
    /\ IsNoopDecision(llm.value)

Hosted == ~llm.force_remote /\ llm.has_key

\* The first call failed with the configured model reported unknown, and the
\* configured model is not the fallback model.
RetryDue ==
    /\ llm.log[1].reply.kind = "error"
    /\ llm.log[1].reply.err = "model_not_found"
    /\ llm.model_name # "gpt-4"

\* C16: in hosted-provider mode send_prompt never makes more than two
\* provider calls; it makes the second, with the fallback model "gpt-4",
\* when and only when the first failed with the configured model reported
\* unknown and the configured model is not the fallback model; and when the
\* retry fails too it returns the Stub Chooser's output.
C16_OneRetry ==
    Hosted =>
      /\ Len(llm.log) <= 2
      /\ llm.pc = "retry" => Len(llm.log) = 1 /\ RetryDue
      /\ llm.pc = "done" =>
            /\ Len(llm.log) >= 1
            /\ llm.log[1].model = llm.model_name
            /\ Len(llm.log) = 2 <=> RetryDue
            /\ Len(llm.log) = 2 =>
                  /\ llm.log[2].model = "gpt-4"
                  /\ CallFailed(llm.log[2].reply) => IsChooserOutput(llm.value)

\* C16 witness: the configured model was unknown, the retry with "gpt-4"
\* returned no JSON, and send_prompt returned an entry of the table.
C16_Witness ==
    /\ Hosted
    /\ llm.pc = "done"
    /\ Len(llm.log) = 2
    /\ llm.log[1].reply.err = "model_not_found"
    /\ llm.log[2].model = "gpt-4"
    /\ llm.log[2].reply.kind = "response"
    /\ ~llm.log[2].reply.content.json
    /\ IsChooserOutput(llm.value)
\* The rows of a table that satisfy Test.
Count(rows, Test(_)) == Len(SelectSeq(rows, Test))

\* No update of SharedState or of the HintStore is lost (rosters of
\* participants, announcers and promoters, HintStore empty at first): heat is
\* 2 per narrated announcer step, momentum 2 per narrated participant step
\* that was no noop, and the hint a narrated promoter step merged is there.
NoUpdateLost ==
    /\ state.heat = 2 * Count(narrative_logs, LAMBDA r : r.role = "announcer")
    /\ state.momentum =
          2 * Count(narrative_logs,
                    LAMBDA r : r.role = "participant" /\ r.description # JStr("Stub action"))
    /\ Count(narrative_logs, LAMBDA r : r.role = "promoter" /\ r.description = JStr("")) > 0
       => "a" \in DOMAIN promoter_hints

\* Call c has started a tick and has not returned or raised yet.
Running(c) == InProgress(c) /\ calls[c].iter >= 1

\* C19 (as claimed): two run_ticks calls issued concurrently on one engine
\* are serialized: their steps do not interleave (while one call is between
\* the start of its first tick and its return, the other starts no tick and
\* runs no step); no two ticks get the same tick index; current_tick never
\* decreases; and no heat, momentum or HintStore update is lost.
C19_ConcurrentCallsSerialized ==
    [][ /\ ~(Running(1)' /\ Running(2)')
        /\ \A i, j \in 1..Len(tick_log') : i # j => tick_log'[i] # tick_log'[j]
        /\ state'.current_tick >= state.current_tick
        /\ NoUpdateLost' ]_vars

\* The rows the call in progress (or the one that ended last) has written:
\* those of the iter ticks it has started.
CallRequests == Count(engine_requests, LAMBDA r : r.due_tick > counter - iter)
CallNarratives == Count(narrative_logs, LAMBDA r : r.time_index > counter - iter)

\* C21 (as claimed): every step run_ticks processes produces one
\* EngineRequest, one NarrativeLogEntry and one TickResult, so the list a
\* call returns has as many entries as the call wrote narrative entries and
\* as it wrote requests, finisher decisions included.
C21_OneRecordOfEachPerStep ==
    pc = "returned" => Len(results) = CallNarratives /\ Len(results) = CallRequests

\* C22 (as claimed): every tick run_ticks starts processes at least one
\* role/agent step, whatever roster get_agents returns.
C22_EveryTickHasAStep ==
    [][ counter' # counter => todo' # <<>> ]_vars

\* Python's "x or default" on the entry k of a decision map: the default
\* replaces a missing and every falsy value.
OrDefault(d, k, default) == IF k \in DOMAIN d /\ Truthy(d[k]) THEN d[k] ELSE default

\* The decision map d has the response shape of the role.
HasRoleShape(role, d) ==
    CASE role = "participant" -> AgentActionResponse(d)
      [] role = "referee" -> RefereeCallResponse(d)
      [] role = "crowd" -> CrowdReactionResponse(d)
      [] role = "announcer" -> AnnouncerCommentaryResponse(d)
      [] role = "promoter" -> PromoterHintResponse(d)
      [] role = "backstage" -> BackstageActionResponse(d)
      [] OTHER -> FALSE

\* The parse table of the specification, row by row.
ParseTable(role, d) ==
    IF DOMAIN d \subseteq StubKeys \/ ~HasRoleShape(role, d)
    THEN Parsed(OrDefault(d, "action_id", JStr("noop")),
                OrDefault(d, "description", JStr("")),
                OrDefault(d, "meta", JDict(EmptyD)))
    ELSE CASE role = "participant" ->
                  Parsed(d["chosen_action_id"],
                         OrDefault(d, "commentary", JStr("")),
                         JDict([k \in {"target_agent_id", "intensity"} |->
                                   IF k \in DOMAIN d THEN ToM(d[k])
                                   ELSE IF k = "intensity" THEN MInt(5) ELSE MNull]))
           [] role = "referee" ->
                  Parsed(JStr("referee_" \o d["call"].s), d["call"],
                         JDict([k \in {"call", "reason"} |->
                                   IF k \in DOMAIN d THEN ToM(d[k]) ELSE MNull]))
           [] role = "crowd" ->
                  Parsed(d["reaction"], d["reaction"],
                         JDict([k \in {"heat_adjustment"} |->
                                   IF k \in DOMAIN d THEN MInt(d[k].i) ELSE MInt(0)]))
           [] role = "announcer" ->
                  Parsed(JStr("announce"), d["commentary"], JDict(EmptyD))
           [] role = "promoter" ->
                  Parsed(JStr("promoter_hint"), JStr(""),
                         JDict([k \in {"new_hints"} |-> ToM(d[k])]))
           [] OTHER ->
                  Parsed(d["action"], OrDefault(d, "description", JStr("")),
                         JDict(EmptyD))

\* C23 (as claimed): _parse_action_data(role, data) equals the parse table
\* for every role and decision map: the role's row when data has the role's
\* response shape, and (action_id or "noop", description or "", meta or {})
\* when the keys of data are among action_id, description, meta or data
\* fails the role's schema.
C23_ParseEqualsTable ==
    last.status # "none" /\ last.action_data.t = "dict" =>
        Parsed(last.action_id, last.description, last.meta)
            = ParseTable(last.role, last.action_data.d)

\* C24: the prompt of a step carries a state payload whose current_tick and
\* current_spot.segment are the tick index of the step (the time_index of
\* the TickResult the step appends), whose heat and momentum are the roster
\* entry's own when it has them and those of the engine's state at that
\* moment otherwise, with a null opponent_id, stipulation "StandardMatch"
\* and mode "tick", and a non-empty list of available actions.
C24_PromptStatePayload ==
    [][ (pc = "tick" /\ todo # <<>>)
        => LET a == Head(todo).agent
               sp == last'.prompt.state
           IN /\ sp.current_tick = tick_index
              /\ sp.current_spot.segment = tick_index
              /\ sp.heat = (IF a.has_stats THEN a.current_heat ELSE state.heat)
              /\ sp.momentum = (IF a.has_stats THEN a.momentum ELSE state.momentum)
              /\ sp.opponent_id = JNull
              /\ sp.stipulation = "StandardMatch"
              /\ sp.mode = "tick"
              /\ Len(last'.prompt.available_actions) > 0
              /\ last'.status = "appended" =>
                     results'[Len(results')].time_index = sp.current_tick ]_vars

\* C24 witness: the second tick's step of the roster entry with heat 42 and
\* momentum 7 was prompted with these, not with the engine's 0 and 2.
C24_Witness ==
    /\ last.status = "appended"
    /\ last.agent_id = "agentX"
    /\ last.tick = 2
    /\ last.prompt.state.current_tick = 2
    /\ last.prompt.state.heat = 42
    /\ last.prompt.state.momentum = 7
    /\ state.heat = 0
    /\ state.momentum = 4

\* What the rules of a step with locals l add to heat.
HeatDelta(l) ==
    CASE l.role = "announcer" -> 2
      [] l.role = "referee" /\ l.meta.t = "dict"
            /\ IsStr(MetaGet(l.meta, "call"), "pinfall") -> 1
      [] l.role = "backstage" /\ l.meta.t = "dict"
            /\ IsStr(MetaGet(l.meta, "action"), "interfere") -> 1
      [] l.role = "crowd" /\ l.action_data.t = "dict"
            /\ IsInstanceInt(Get(l.action_data.d, "heat_adjustment", JNull)) ->
               Get(l.action_data.d, "heat_adjustment", JNull).i
      [] OTHER -> 0

\* What the rules of a step with locals l make of the momentum m.
MomentumAfter(l, m) ==
    CASE l.role = "participant" /\ ~IsStr(l.action_id, "noop") -> m + 2
      [] l.role = "referee" /\ l.meta.t = "dict"
            /\ IsStr(MetaGet(l.meta, "call"), "pinfall") -> 0
      [] l.role = "backstage" /\ l.meta.t = "dict"
            /\ IsStr(MetaGet(l.meta, "action"), "interfere") -> m + 1
      [] OTHER -> m

\* The step that ran got past the rules of its role.
Mutated(l) == l.status \in {"appended", "finisher"}

C26_FinisherStepApplied ==
    [][ (pc = "tick" /\ pc' = "returned")
        => /\ FinisherDecision(last')
           /\ engine_requests' =
                  Append(engine_requests,
                         [agent_id |-> last'.agent_id, due_tick |-> tick_index,
                          role |-> "participant", status |-> "processed"])
           /\ narrative_logs' =
                  Append(narrative_logs,
                         [tick_id |-> tick_index, time_index |-> tick_index,
                          agent_id |-> last'.agent_id, role |-> "participant",
                          description |-> last'.description])
           /\ state'.momentum =
                  state.momentum + (IF IsStr(last'.action_id, "noop") THEN 0 ELSE 2)
           /\ state'.heat = state.heat ]_vars

\* C26 witness: a call returned on the finisher of its second tick (action
\* "slam" with move_type finisher): two requests, two narrative entries and
\* momentum 4 are there, one result was returned.
C26_Witness ==
    /\ pc = "returned"
    /\ last.status = "finisher"
    /\ last.tick = 2
    /\ IsStr(last.action_id, "slam")
    /\ Len(engine_requests) = 2
    /\ Len(narrative_logs) = 2
    /\ narrative_logs[2].time_index = 2
    /\ state.momentum = 4
    /\ Len(results) = 1

\* C27: hints merged by a promoter step are visible to every later step.
\* The prompt of every step carries the HintStore as it is when the step
\* starts; between two steps the HintStore changes only by set_hints, which
\* needs the call to be over; and a promoter step keeps every key of the
\* HintStore, so that what one promoter step merged is in the prompts of the
\* other roles of its tick and of the steps of later ticks.
C27_MergedHintsInLaterPrompts ==
    [][ /\ (pc = "tick" /\ todo # <<>>) => last'.prompt.hints = promoter_hints
        /\ promoter_hints' # promoter_hints =>
              \/ NoCall /\ pc' = pc
              \/ /\ pc = "tick"
                 /\ last'.role = "promoter"
                 /\ HasNewHints(last')
                 /\ \A k \in DOMAIN promoter_hints' :
                       promoter_hints'[k] =
                           IF k \in DOMAIN last'.meta.d["new_hints"].h
                           THEN last'.meta.d["new_hints"].h[k]
                           ELSE promoter_hints[k] ]_vars

\* C27 witness: in the second tick a step of another role was prompted with
\* the hint a = 2, which only a promoter step merges.
C27_Witness ==
    /\ last.role # "promoter"
    /\ last.status = "appended"
    /\ last.tick = 2
    /\ "a" \in DOMAIN last.prompt.hints
    /\ last.prompt.hints["a"] = 2
    /\ promoter_hints = last.prompt.hints

\* C28: in every state reached from a new engine by set_hints and run_ticks
\* calls made one after the other, momentum is at least 0: a step changes
\* momentum only by +2 (participant), by +1 (backstage, interfere) or by
\* resetting it to 0 (referee, pinfall), and nothing else changes it.
C28_MomentumNeverNegative ==
    [][ /\ state.momentum >= 0
        /\ state'.momentum >= 0
        /\ state'.momentum # state.momentum =>
              /\ pc = "tick"
              /\ \/ last'.role = "participant" /\ state'.momentum = state.momentum + 2
                 \/ /\ last'.role = "backstage"
                    /\ IsStr(MetaGet(last'.meta, "action"), "interfere")
                    /\ state'.momentum = state.momentum + 1
                 \/ /\ last'.role = "referee"
                    /\ IsStr(MetaGet(last'.meta, "call"), "pinfall")
                    /\ state'.momentum = 0 ]_vars

\* C28 witness: a referee's pinfall has reset to 0 the momentum the steps
\* before it had built up.
C28_Witness ==
    /\ last.role = "referee"
    /\ last.status = "appended"
    /\ last.meta.t = "dict"
    /\ IsStr(MetaGet(last.meta, "call"), "pinfall")
    /\ state.momentum = 0
    /\ results # <<>>
    /\ \E i \in 1..Len(results) : results[i].state_snapshot.momentum > 0

\* C29: a step changes only what the rule of its role names: a participant
\* step leaves heat and the HintStore as they are, a crowd or announcer step
\* momentum and the HintStore, a referee or backstage step the HintStore, a
\* promoter step heat and momentum; and no step changes current_tick.
C29_StepFrame ==
    [][ (pc = "tick" /\ todo # <<>>)
        => LET role == last'.role
           IN /\ role = Head(todo).role
              /\ state'.current_tick = state.current_tick
              /\ role = "participant" =>
                    state'.heat = state.heat /\ promoter_hints' = promoter_hints
              /\ role \in {"crowd", "announcer"} =>
                    state'.momentum = state.momentum /\ promoter_hints' = promoter_hints
              /\ role \in {"referee", "backstage"} => promoter_hints' = promoter_hints
              /\ role = "promoter" =>
                    state'.heat = state.heat /\ state'.momentum = state.momentum ]_vars

\* C29 witness: a promoter step of the second tick has merged a hint into
\* the HintStore and left the heat (2, of the first tick's announcer) as it
\* was.
C29_Witness ==
    /\ last.role = "promoter"
    /\ last.status = "appended"
    /\ last.tick = 2
    /\ "a" \in DOMAIN promoter_hints
    /\ "a" \notin DOMAIN last.prompt.hints
    /\ state.heat = 2
    /\ state.current_tick = 2

\* C30: the state_snapshot of every TickResult is the state as it is right
\* after the mutation of its own step, and later steps do not alter it: its
\* current_tick is the time_index of the result, and its heat and momentum
\* are those of the snapshot of the result before it, changed by exactly
\* what the rule of the step's role does.
C30_SnapshotAfterOwnStep ==
    [][ /\ (pc = "tick" /\ last'.status = "appended") =>
              LET r == results'[Len(results')]
              IN /\ Len(results') = Len(results) + 1
                 /\ r.state_snapshot = [current_tick |-> state'.current_tick,
                                        heat |-> state'.heat,
                                        momentum |-> state'.momentum]
                 /\ r.state_snapshot.current_tick = r.time_index
                 /\ results # <<>> =>
                       LET before == results[Len(results)].state_snapshot
                       IN /\ r.state_snapshot.heat = before.heat + HeatDelta(last')
                          /\ r.state_snapshot.momentum =
                                 MomentumAfter(last', before.momentum)
        /\ pc \in {"loop", "tick"} => IsPrefix(results, results') ]_vars

\* C30 witness: a call has three results; the announcer's step after the
\* first one added 2 to the heat of the first snapshot, which still shows
\* the heat of its own moment, and the state has moved on since.
C30_Witness ==
    /\ Len(results) >= 3
    /\ results[2].role = "announcer"
    /\ results[2].state_snapshot.heat = results[1].state_snapshot.heat + 2
    /\ results[3].state_snapshot.current_tick = 2
    /\ results[3].time_index = 2
    /\ results[1].state_snapshot.current_tick = 1
    /\ state.heat > results[1].state_snapshot.heat
====
